---- MODULE Spec2Model ----
(***************************************************************************)
(* Model of the cosmic dust Monte Carlo simulator (simulation.py) and of   *)
(* the Flask layer around it (app.py).                                     *)
(*                                                                         *)
(* Representation of the numeric types:                                    *)
(*   - a real in [0,1) or a log10 value is an exact rational <<n, d>>,     *)
(*     d > 0;                                                              *)
(*   - a radius r is kept as log10(r) (10**x is monotone, so every         *)
(*     comparison of radii is the comparison of their logarithms);         *)
(*   - a speed is an integer number of 100 m/s;                            *)
(*   - the outputs of the transcendental geometry (cos, sin, arcsin,       *)
(*     arctan2, arccos, the factor pi) are kept as terms over the draws    *)
(*     they are computed from, so two of them are equal exactly when they  *)
(*     were computed from the same draws.                                  *)
(***************************************************************************)
EXTENDS Integers, Sequences, FiniteSets, TLC

\* Python's None; an Optional value that is present is a one-element sequence
None == <<>>
Some(x) == <<x>>

----------------------------------------------------------------------------
(* Bounds of the model.                                                    *)

\* largest particle count N passed to a run
MaxN == 2
\* a run is started only while the generator has produced at most MaxPos draws
MaxPos == 10

----------------------------------------------------------------------------
(* Exact rationals.                                                        *)

Rat(n, d) == <<n, d>>
RLess(a, b) == a[1] * b[2] < b[1] * a[2]
RLeq(a, b) == a[1] * b[2] <= b[1] * a[2]

RECURSIVE ISqrtBetween(_, _, _)
ISqrtBetween(n, lo, hi) ==
    IF lo >= hi THEN lo
    ELSE LET mid == (lo + hi + 1) \div 2
         IN  IF mid * mid <= n THEN ISqrtBetween(n, mid, hi)
             ELSE ISqrtBetween(n, lo, mid - 1)

\* floor of the square root of n >= 0
ISqrt(n) == ISqrtBetween(n, 0, 2000)

----------------------------------------------------------------------------
(* simulation.py, module level: physical constants and population tables.  *)

\* v_esc ** 2 = 2 * G * M_E / R_top = 1.2319e8 m2/s2, in (100 m/s)^2
V_ESC_SQ == 12319
\* high energy threshold 50e3 m/s, in 100 m/s
HIGH_ENERGY_V == 500
\* log10(0.5e-6), the EM threshold radius, times EM_SCALE
EM_LOG_R == -630103
EM_SCALE == 100000

MATERIAL_DENSITIES ==
    [silicate |-> 3000, carbonaceous |-> 1500, iron_nickel |-> 7800]

\* categories in dict order, weights in percent
SOURCE_KEYS == <<"asteroidal", "cometary", "interstellar">>
SOURCE_FRACTIONS == [asteroidal |-> 50, cometary |-> 30, interstellar |-> 20]

SOURCE_VELOCITY_RANGES ==
    [asteroidal   |-> <<110, 250>>,
     cometary     |-> <<200, 700>>,
     interstellar |-> <<300, 1000>>]

SOURCE_MATERIAL_KEYS ==
    [asteroidal   |-> <<"silicate", "iron_nickel">>,
     cometary     |-> <<"carbonaceous", "silicate">>,
     interstellar |-> <<"silicate", "carbonaceous">>]
SOURCE_MATERIAL_DISTRIBUTIONS ==
    [asteroidal   |-> <<60, 40>>,
     cometary     |-> <<80, 20>>,
     interstellar |-> <<50, 50>>]

----------------------------------------------------------------------------
(* numpy.random.Generator: the state is the key the generator was seeded   *)
(* with and the number of draws made; draw number pos is a function of     *)
(* (key, pos) alone.                                                       *)

\* raw draws are 0 .. RawRange-1
RawRange == 10

Raw(key, pos) == (3 * key + 3 * pos + 2 * pos * pos) % RawRange

\* the generator after k more draws
After(rng, k) == [rng EXCEPT !.pos = @ + k]

\* rng.uniform(0, 1) / rng.random(): a float in [0, 1)
Uniform01(rng) == Rat(Raw(rng.key, rng.pos) * Raw(rng.key, rng.pos), RawRange * RawRange)

\* rng.normal(0, 1) in whole standard deviations
StdNormal(rng) == (Raw(rng.key, rng.pos) % 7) - 3

RECURSIVE CumulativeUpTo(_, _)
CumulativeUpTo(weights, i) ==
    IF i = 0 THEN 0 ELSE weights[i] + CumulativeUpTo(weights, i - 1)

\* rng.choice(keys, p=weights/sum): index found by searching the normalised
\* cumulative weights for the uniform draw u (side = 'right')
ChoiceIndex(weights, u) ==
    LET total == CumulativeUpTo(weights, Len(weights))
        below == {i \in 1..Len(weights) :
                     CumulativeUpTo(weights, i) * u[2] <= u[1] * total}
    IN  Cardinality(below) + 1

----------------------------------------------------------------------------
(* CosmicDustSimulator: the samplers. Each takes the generator state at    *)
(* its call and gives the sampled value; the draws each makes are counted  *)
(* in simulate_particle.                                                   *)

\* one draw
sample_source(rng) ==
    SOURCE_KEYS[ChoiceIndex([i \in 1..Len(SOURCE_KEYS) |-> SOURCE_FRACTIONS[SOURCE_KEYS[i]]],
                            Uniform01(rng))]

\* u ** (1 / k) for k in {1, 2} (exact on the squares the generator draws)
Root(u, k) == IF k = 1 THEN u ELSE Rat(ISqrt(u[1]), ISqrt(u[2]))

\* u ** (1 / (1 - q)) for u > 0, or for u = 0 and q < 1
Power(u, q) ==
    IF 1 - q < 0
    THEN Rat(Root(u, q - 1)[2], Root(u, q - 1)[1])
    ELSE Root(u, 1 - q)

\* one draw; log10 of the sampled radius, or the exception raised. r_min
\* and r_max are given as log10(r_min) and log10(r_max). A float 0.0 raised
\* to a negative power raises ZeroDivisionError.
sample_radius(rng, r_min, r_max, q) ==
    IF q = 1
    THEN [outcome |-> "ok",
          value   |-> Rat(r_min * Uniform01(rng)[2] + (r_max - r_min) * Uniform01(rng)[1],
                          Uniform01(rng)[2])]
    ELSE IF 1 - q < 0 /\ Uniform01(rng)[1] = 0
    THEN [outcome |-> "ZeroDivisionError", value |-> None]
    ELSE [outcome |-> "ok",
          value   |-> Rat(r_min * Power(Uniform01(rng), q)[2]
                            + (r_max - r_min) * (Power(Uniform01(rng), q)[2]
                                                   - Power(Uniform01(rng), q)[1]),
                          Power(Uniform01(rng), q)[2])]

\* one draw
sample_material(rng, source) ==
    SOURCE_MATERIAL_KEYS[source][
        ChoiceIndex(SOURCE_MATERIAL_DISTRIBUTIONS[source], Uniform01(rng))]

Clip(v, lo, hi) == IF v < lo THEN lo ELSE IF v > hi THEN hi ELSE v

\* one draw: mean + std * z, clipped to the range of the source
sample_v_inf(rng, source) ==
    Clip((SOURCE_VELOCITY_RANGES[source][1] + SOURCE_VELOCITY_RANGES[source][2]) \div 2
           + ((SOURCE_VELOCITY_RANGES[source][2] - SOURCE_VELOCITY_RANGES[source][1]) \div 4)
               * StdNormal(rng),
         SOURCE_VELOCITY_RANGES[source][1],
         SOURCE_VELOCITY_RANGES[source][2])

\* three draws; the unit vector u, as a term over them: an isotropic
\* direction for an interstellar particle, else azimuth, cos(inclination)
\* and the sign flip of z (rng.random() < 0.5)
sample_direction(rng, source) ==
    IF source = "interstellar"
    THEN <<"isotropic", StdNormal(rng), StdNormal(After(rng, 1)), StdNormal(After(rng, 2))>>
    ELSE <<"ecliptic", Uniform01(rng)[1], Uniform01(After(rng, 1))[1],
           IF RLess(Uniform01(After(rng, 2)), Rat(1, 2)) THEN -1 ELSE 1>>

\* one draw; a unit vector perpendicular to u, rotated about u by a drawn
\* angle
sample_perp_unit_vector(rng, u) == <<"perp", u, Uniform01(rng)[1]>>

\* b_vec is b_mag * b_hat with b_mag = sqrt(b_draw) * bmax; when its norm
\* is 0 a fresh perpendicular vector is sampled, which costs one more draw
IntersectionDraws(b_draw) == IF b_draw[1] > 0 THEN 0 ELSE 1

compute_intersection_point(rng, u, b_hat, b_draw) ==
    IF b_draw[1] > 0
    THEN <<"position", u, b_hat, b_draw[1]>>
    ELSE <<"position", u, sample_perp_unit_vector(rng, u), 0>>

compute_entry_angle(u, position) == <<"entry_angle", u, position>>

\* the record of a particle from its sampled values; u is the direction,
\* position the intersection point
ParticleResult(source, r, material, v_inf, u, b_draw, position) ==
    [source_family           |-> source,
     r                       |-> r,
     m                       |-> <<"mass", r, MATERIAL_DENSITIES[material]>>,
     material                |-> material,
     rho                     |-> MATERIAL_DENSITIES[material],
     v_inf                   |-> v_inf,
     v_entry                 |-> ISqrt(v_inf * v_inf + V_ESC_SQ),
     incoming_unit_vector    |->
         << <<"x", u, ISqrt(v_inf * v_inf + V_ESC_SQ)>>,
            <<"y", u, ISqrt(v_inf * v_inf + V_ESC_SQ)>>,
            <<"z", u, ISqrt(v_inf * v_inf + V_ESC_SQ)>> >>,
     impact_parameter_b      |-> <<"b_mag", b_draw[1], v_inf>>,
     entry_angle             |-> compute_entry_angle(u, position),
     lat                     |-> <<"lat", position>>,
     lon                     |-> <<"lon", position>>,
     em_flag                 |-> r[1] * EM_SCALE < EM_LOG_R * r[2],
     high_energy_flag        |-> v_inf * v_inf + V_ESC_SQ > HIGH_ENERGY_V * HIGH_ENERGY_V,
     selected_for_atmosphere |-> TRUE]

\* one particle: the draws are made in the order of the code, source (1),
\* radius (1), material (1), v_inf (1), direction (3), perpendicular (1),
\* b_mag (1), and the fresh perpendicular of a zero b_vec
simulate_particle(rng, r_min, r_max, q) ==
    LET source == sample_source(rng)
        radius == sample_radius(After(rng, 1), r_min, r_max, q)
        u == sample_direction(After(rng, 4), source)
        b_draw == Uniform01(After(rng, 8))
    IN  IF radius.outcome # "ok"
        THEN [rng |-> After(rng, 2), outcome |-> radius.outcome, value |-> None]
        ELSE [rng     |-> After(rng, 9 + IntersectionDraws(b_draw)),
              outcome |-> "ok",
              value   |-> ParticleResult(
                              source,
                              radius.value,
                              sample_material(After(rng, 2), source),
                              sample_v_inf(After(rng, 3), source),
                              u,
                              b_draw,
                              compute_intersection_point(
                                  After(rng, 9), u,
                                  sample_perp_unit_vector(After(rng, 7), u), b_draw))]

----------------------------------------------------------------------------
(* Inputs.                                                                 *)

Ns == -1..MaxN
\* log10(r_min) and log10(r_max); the defaults are -7 and -3
RMins == {-7, -3}
RMaxs == {-6, -3}
\* q; the default is 3
Qs == {0, 1, 3}
Seeds == {None, Some(0), Some(42)}
\* the keys a generator without a seed may get from the operating system
EntropyKeys == {5, 16}
Filenames == {"test_output.csv"}
\* the names tempfile.NamedTemporaryFile may return
TempNames == {"tmp1.csv"}

\* the generator keys and draw positions the inputs and bounds allow
Keys == EntropyKeys \cup {seed[1] : seed \in Seeds \ {None}}
Positions == 0..(MaxPos + 10 * MaxN)

\* simulate_particle, tabulated over the generator states and parameters
\* (each entry is the value of the operator)
SimulatedParticle ==
    [key \in Keys, pos \in Positions, r_min \in RMins, r_max \in RMaxs, q \in Qs |->
        simulate_particle([key |-> key, pos |-> pos], r_min, r_max, q)]

----------------------------------------------------------------------------
(* CosmicDustSimulator: construction, run, diagnostics, export.            *)

\* default_rng() called without the seed
default_rng_unseeded(seed, entropy) == [key |-> entropy, pos |-> 0]

\* default_rng(seed) with seed None takes its key from the operating
\* system's entropy: entropy is the key it got
default_rng(seed, entropy) ==
    [key |-> IF seed = None THEN entropy ELSE seed[1], pos |-> 0]

CosmicDustSimulator(seed, entropy) ==
    [rng |-> default_rng(seed, entropy), results |-> <<>>]

\* the loop of run_simulation from the state (rng, results) with `left`
\* particles to go; an exception of simulate_particle ends it
RECURSIVE RunLoop(_, _, _, _, _, _)
Iteration(p, results, left, r_min, r_max, q) ==
    IF p.outcome # "ok"
    THEN [rng |-> p.rng, results |-> results, outcome |-> p.outcome]
    ELSE RunLoop(p.rng, Append(results, p.value), left - 1, r_min, r_max, q)

RunLoop(rng, results, left, r_min, r_max, q) ==
    IF left <= 0
    THEN [rng |-> rng, results |-> results, outcome |-> "ok"]
    ELSE Iteration(SimulatedParticle[rng.key, rng.pos, r_min, r_max, q],
                   results, left, r_min, r_max, q)

\* what is left of the loop's end state: the simulator, and how the call
\* ended; a call that ends "ok" returns self.results
AfterRun(done) ==
    [self    |-> [rng |-> done.rng, results |-> done.results],
     outcome |-> done.outcome]

\* run_simulation without `self.results = []`: the loop appends to the
\* results of the earlier run
run_simulation_additive(self, N, r_min, r_max, q) ==
    AfterRun(RunLoop(self.rng, self.results, N, r_min, r_max, q))

\* run_simulation(N, r_min, r_max, q): self.results = [], then the loop
run_simulation(self, N, r_min, r_max, q) ==
    AfterRun(RunLoop(self.rng, <<>>, N, r_min, r_max, q))

\* the values of a field over the result list, in order
Column(results, field) == [i \in 1..Len(results) |-> results[i][field]]

\* {c: len(values) for c in set(values)}
Counts_len(values) == [c \in {values[i] : i \in 1..Len(values)} |-> Len(values)]

\* {c: values.count(c) for c in set(values)}
Counts(values) ==
    [c \in {values[i] : i \in 1..Len(values)} |->
        Cardinality({i \in 1..Len(values) : values[i] = c})]

RECURSIVE SumSeq(_, _)
SumSeq(values, i) == IF i = 0 THEN 0 ELSE values[i] + SumSeq(values, i - 1)

\* the values in ascending order
SortedInts(values) ==
    [i \in 1..Len(values) |->
        CHOOSE v \in {values[j] : j \in 1..Len(values)} :
            /\ Cardinality({j \in 1..Len(values) : values[j] < v}) < i
            /\ Cardinality({j \in 1..Len(values) : values[j] <= v}) >= i]

\* np.min, np.max, np.mean, np.median of a list of speeds
IntStats(values) ==
    LET n == Len(values)
        sorted == SortedInts(values)
    IN  [min    |-> sorted[1],
         max    |-> sorted[n],
         mean   |-> Rat(SumSeq(values, n), n),
         median |-> IF n % 2 = 1 THEN Rat(sorted[(n + 1) \div 2], 1)
                    ELSE Rat(sorted[n \div 2] + sorted[n \div 2 + 1], 2)]

\* the same of a list of radii, each held as its log10: min and max are
\* found by comparison, mean and median are terms over the list
RadiusStats(values) ==
    LET all == {values[i] : i \in 1..Len(values)}
    IN  [min    |-> CHOOSE v \in all : \A w \in all : RLeq(v, w),
         max    |-> CHOOSE v \in all : \A w \in all : RLeq(w, v),
         mean   |-> <<"mean", values>>,
         median |-> <<"median", values>>]

\* the same of a list of entry angles, which are terms
TermStats(values) ==
    [min    |-> <<"min", values>>,
     max    |-> <<"max", values>>,
     mean   |-> <<"mean", values>>,
     median |-> <<"median", values>>]

\* the empty dict
EmptyDict == <<>>

get_diagnostics(self) ==
    IF self.results = <<>>
    THEN EmptyDict
    ELSE [total_particles       |-> Len(self.results),
          size_stats            |-> RadiusStats(Column(self.results, "r")),
          v_inf_stats           |-> IntStats(Column(self.results, "v_inf")),
          v_entry_stats         |-> IntStats(Column(self.results, "v_entry")),
          source_distribution   |-> Counts(Column(self.results, "source_family")),
          material_distribution |-> Counts(Column(self.results, "material")),
          em_particles          |->
              Cardinality({i \in 1..Len(self.results) : self.results[i].em_flag}),
          high_energy_particles |->
              Cardinality({i \in 1..Len(self.results) : self.results[i].high_energy_flag}),
          entry_angle_stats     |-> TermStats(Column(self.results, "entry_angle")),
          total_mass_kg         |-> <<"sum", Column(self.results, "m")>>]

\* the columns of the CSV file, in order
FIELDNAMES ==
    <<"source_family", "r_m", "m_kg", "material", "rho_kg_m3",
      "v_inf_m_s", "v_entry_m_s",
      "incoming_vector_x", "incoming_vector_y", "incoming_vector_z",
      "impact_parameter_b_m", "entry_angle_deg", "lat_deg", "lon_deg",
      "em_flag", "high_energy_flag", "selected_for_atmosphere">>

\* RowDict with incoming_unit_vector[1] and [0] the wrong way round
RowDict_swapped(d) ==
    [source_family           |-> d.source_family,
     r_m                     |-> d.r,
     m_kg                    |-> d.m,
     material                |-> d.material,
     rho_kg_m3               |-> d.rho,
     v_inf_m_s               |-> d.v_inf,
     v_entry_m_s             |-> d.v_entry,
     incoming_vector_x       |-> d.incoming_unit_vector[2],
     incoming_vector_y       |-> d.incoming_unit_vector[1],
     incoming_vector_z       |-> d.incoming_unit_vector[3],
     impact_parameter_b_m    |-> d.impact_parameter_b,
     entry_angle_deg         |-> d.entry_angle,
     lat_deg                 |-> d.lat,
     lon_deg                 |-> d.lon,
     em_flag                 |-> d.em_flag,
     high_energy_flag        |-> d.high_energy_flag,
     selected_for_atmosphere |-> d.selected_for_atmosphere]

\* the dict export_csv builds of one particle
RowDict(d) ==
    [source_family           |-> d.source_family,
     r_m                     |-> d.r,
     m_kg                    |-> d.m,
     material                |-> d.material,
     rho_kg_m3               |-> d.rho,
     v_inf_m_s               |-> d.v_inf,
     v_entry_m_s             |-> d.v_entry,
     incoming_vector_x       |-> d.incoming_unit_vector[1],
     incoming_vector_y       |-> d.incoming_unit_vector[2],
     incoming_vector_z       |-> d.incoming_unit_vector[3],
     impact_parameter_b_m    |-> d.impact_parameter_b,
     entry_angle_deg         |-> d.entry_angle,
     lat_deg                 |-> d.lat,
     lon_deg                 |-> d.lon,
     em_flag                 |-> d.em_flag,
     high_energy_flag        |-> d.high_energy_flag,
     selected_for_atmosphere |-> d.selected_for_atmosphere]

\* the text the csv writer puts in a cell for a value
Str(v) == <<"str", v>>

\* csv.DictWriter: a line of the file is the sequence of its cells
writeheader == FIELDNAMES
writerow(row) == [i \in 1..Len(FIELDNAMES) |-> Str(row[FIELDNAMES[i]])]

\* open(filename, 'w') creates or truncates the file
Open(files, filename) ==
    [f \in DOMAIN files \cup {filename} |-> IF f = filename THEN <<>> ELSE files[f]]

WriteLine(files, filename, line) ==
    [files EXCEPT ![filename] = Append(@, line)]

RECURSIVE WriteRows(_, _, _, _)
WriteRows(files, filename, results, i) ==
    IF i > Len(results) THEN files
    ELSE WriteRows(WriteLine(files, filename, writerow(RowDict(results[i]))),
                   filename, results, i + 1)

\* export_csv with the file opened before the check of self.results
export_csv_opens_first(self, filename, files) ==
    IF self.results = <<>>
    THEN [files |-> Open(files, filename), outcome |-> "ValueError"]
    ELSE [files   |-> WriteRows(WriteLine(Open(files, filename), filename, writeheader),
                                filename, self.results, 1),
          outcome |-> "ok"]

\* the file system after export_csv(filename), and how the call ended
export_csv(self, filename, files) ==
    IF self.results = <<>>
    THEN [files |-> files, outcome |-> "ValueError"]
    ELSE [files   |-> WriteRows(WriteLine(Open(files, filename), filename, writeheader),
                                filename, self.results, 1),
          outcome |-> "ok"]

----------------------------------------------------------------------------
(* State.                                                                  *)

VARIABLES
    simulator,     \* the simulator object: None, or Some([rng, results])
    twin,          \* a second simulator object, for runs side by side
    running,       \* the simulate request being handled: None, or Some(its body)
    log,           \* of simulator and twin: the seed given, the run made
    random_state,  \* the generator of Python's random module: its seed key
    files,         \* the file system: file name -> lines
    last           \* the last call or request: what it was and how it ended

vars == <<simulator, twin, running, log, random_state, files, last>>

Self == simulator[1]

NoFiles == [f \in {} |-> <<>>]
NoLog == [seed |-> <<None, None>>, run |-> <<None, None>>]
Started == [op |-> "start", outcome |-> "ok", ret |-> None]

----------------------------------------------------------------------------
(* The core API, called directly on one simulator as test_simulation.py    *)
(* does.                                                                   *)

\* simulator = CosmicDustSimulator(seed=seed)
Init ==
    /\ \E seed \in Seeds, entropy \in EntropyKeys :
          simulator = Some(CosmicDustSimulator(seed, entropy))
    /\ twin = None
    /\ running = None
    /\ log = NoLog
    /\ random_state = None
    /\ files = NoFiles
    /\ last = Started

Returned(op, outcome, ret) ==
    [op |-> op, outcome |-> outcome, ret |-> IF outcome = "ok" THEN ret ELSE None]

\* simulator.run_simulation(N, r_min, r_max, q)
RunSimulation(N, r_min, r_max, q) ==
    /\ Self.rng.pos <= MaxPos
    /\ simulator' = Some(run_simulation(Self, N, r_min, r_max, q).self)
    /\ last' = Returned("run_simulation",
                        run_simulation(Self, N, r_min, r_max, q).outcome,
                        simulator'[1].results)
    /\ UNCHANGED <<twin, running, log, random_state, files>>

\* simulator.get_diagnostics()
GetDiagnostics ==
    /\ last' = Returned("get_diagnostics", "ok", get_diagnostics(Self))
    /\ UNCHANGED <<simulator, twin, running, log, random_state, files>>

\* simulator.export_csv(filename)
ExportCsv(filename) ==
    /\ files' = export_csv(Self, filename, files).files
    /\ last' = Returned("export_csv", export_csv(Self, filename, files).outcome, filename)
    /\ UNCHANGED <<simulator, twin, running, log, random_state>>

Next ==
    \/ \E N \in Ns, r_min \in RMins, r_max \in RMaxs, q \in Qs :
          RunSimulation(N, r_min, r_max, q)
    \/ GetDiagnostics
    \/ \E filename \in Filenames : ExportCsv(filename)

Spec == Init /\ [][Next]_vars

----------------------------------------------------------------------------
(* Two simulators side by side, each constructed and then run once.        *)

InitPair ==
    /\ \E seed1 \in Seeds, seed2 \in Seeds, entropy1 \in EntropyKeys, entropy2 \in EntropyKeys :
          /\ simulator = Some(CosmicDustSimulator(seed1, entropy1))
          /\ twin = Some(CosmicDustSimulator(seed2, entropy2))
          /\ log = [seed |-> <<seed1, seed2>>, run |-> <<None, None>>]
    /\ running = None
    /\ random_state = None
    /\ files = NoFiles
    /\ last = Started

Call(N, r_min, r_max, q) == Some([N |-> N, r_min |-> r_min, r_max |-> r_max, q |-> q])

RunFirst(N, r_min, r_max, q) ==
    /\ log.run[1] = None
    /\ simulator' = Some(run_simulation(Self, N, r_min, r_max, q).self)
    /\ log' = [log EXCEPT !.run[1] = Call(N, r_min, r_max, q)]
    /\ UNCHANGED <<twin, running, random_state, files, last>>

RunSecond(N, r_min, r_max, q) ==
    /\ log.run[2] = None
    /\ twin' = Some(run_simulation(twin[1], N, r_min, r_max, q).self)
    /\ log' = [log EXCEPT !.run[2] = Call(N, r_min, r_max, q)]
    /\ UNCHANGED <<simulator, running, random_state, files, last>>

NextPair ==
    \/ \E N \in Ns, r_min \in RMins, r_max \in RMaxs, q \in Qs :
          RunFirst(N, r_min, r_max, q)
    \/ \E N \in Ns, r_min \in RMins, r_max \in RMaxs, q \in Qs :
          RunSecond(N, r_min, r_max, q)

SpecPair == InitPair /\ [][NextPair]_vars

----------------------------------------------------------------------------
(* app.py: the three request handlers on the global simulator, each run    *)
(* from its first line to its response. jsonify is taken to serialise      *)
(* every value it is given.                                                *)

\* simulator = None
InitWeb ==
    /\ simulator = None
    /\ twin = None
    /\ running = None
    /\ log = NoLog
    /\ random_state = None
    /\ files = NoFiles
    /\ last = Started

\* the frontend gets at most this many particles
SAMPLE_LIMIT == 10000

Min(a, b) == IF a < b THEN a ELSE b

\* bool(seed) of an Optional[int]: None and 0 are false
Truthy(seed) == seed # None /\ seed[1] # 0

\* random.seed(seed if seed else 42): the key of the module's generator
random_seed(seed) == Some(IF Truthy(seed) THEN seed[1] ELSE 42)

\* random.sample(results, sample_size) if len(results) > sample_size else results
sampled_results(results, key) ==
    IF Len(results) > Min(SAMPLE_LIMIT, Len(results))
    THEN <<"sample", key, results, Min(SAMPLE_LIMIT, Len(results))>>
    ELSE results

\* the dict the handler builds of one particle
ResultDict(r) ==
    [source_family           |-> r.source_family,
     r                       |-> r.r,
     m                       |-> r.m,
     material                |-> r.material,
     rho                     |-> r.rho,
     v_inf                   |-> r.v_inf,
     v_entry                 |-> r.v_entry,
     incoming_unit_vector    |-> r.incoming_unit_vector,
     impact_parameter_b      |-> r.impact_parameter_b,
     entry_angle             |-> r.entry_angle,
     lat                     |-> r.lat,
     lon                     |-> r.lon,
     em_flag                 |-> r.em_flag,
     high_energy_flag        |-> r.high_energy_flag,
     selected_for_atmosphere |-> r.selected_for_atmosphere]

\* the response of the except branch of simulate and export
ErrorResponse(op, error) ==
    [op      |-> op,
     outcome |-> 500,
     ret     |-> [success |-> FALSE, error |-> error, traceback |-> TRUE]]

NoResultsResponse(op) ==
    [op      |-> op,
     outcome |-> 400,
     ret     |-> [success |-> FALSE, error |-> "No simulation results available"]]

\* the response of simulate after a run that returned: self is the
\* simulator, sampled the sample taken of its results
SimulateResponse(self, sampled) ==
    [op      |-> "simulate",
     outcome |-> 200,
     ret     |-> [success           |-> TRUE,
                  total_particles   |-> Len(self.results),
                  sampled_particles |-> Len(sampled),
                  results           |-> [i \in 1..Len(sampled) |-> ResultDict(sampled[i])],
                  diagnostics       |-> get_diagnostics(self)]]

\* simulate from `simulator = CosmicDustSimulator(seed=seed)` on: run is the
\* simulator after run_simulation and how that call ended
Simulated(run, seed) ==
    /\ simulator' = Some(run.self)
    /\ IF run.outcome = "ok"
       THEN /\ random_state' = random_seed(seed)
            /\ last' = SimulateResponse(
                           run.self, sampled_results(run.self.results, random_seed(seed)))
       ELSE /\ random_state' = random_state
            /\ last' = ErrorResponse("simulate", run.outcome)

\* POST /api/simulate with the JSON body data
simulate(data) ==
    /\ \E entropy \in EntropyKeys :
          Simulated(run_simulation(CosmicDustSimulator(data.seed, entropy),
                                   data.N, data.r_min, data.r_max, data.q),
                    data.seed)
    /\ UNCHANGED <<twin, running, log, files>>

\* export from the creation of the temporary file on: written is the file
\* system after export_csv and how that call ended
Exported(written, filename) ==
    /\ files' = written.files
    /\ last' = IF written.outcome = "ok"
               THEN [op |-> "export", outcome |-> 200, ret |-> written.files[filename]]
               ELSE ErrorResponse("export", written.outcome)

\* POST /api/export
export ==
    /\ IF simulator = None \/ Self.results = <<>>
       THEN /\ last' = NoResultsResponse("export")
            /\ files' = files
       ELSE \E filename \in TempNames \ DOMAIN files :
               Exported(export_csv(Self, filename, Open(files, filename)), filename)
    /\ UNCHANGED <<simulator, twin, running, log, random_state>>

\* GET /api/diagnostics
diagnostics ==
    /\ IF simulator = None \/ Self.results = <<>>
       THEN last' = NoResultsResponse("diagnostics")
       ELSE last' = [op      |-> "diagnostics",
                     outcome |-> 200,
                     ret     |-> [success |-> TRUE, diagnostics |-> get_diagnostics(Self)]]
    /\ UNCHANGED <<simulator, twin, running, log, random_state, files>>

\* data.get('r_max', 1e-3) of a body without r_max, as log10
R_MAX_DEFAULT == -3

\* the JSON bodies posted to /api/simulate: they leave r_max out
Requests ==
    [N : Ns, r_min : RMins, r_max : {R_MAX_DEFAULT}, q : Qs, seed : Seeds]

NextWeb ==
    \/ \E data \in Requests : simulate(data)
    \/ export
    \/ diagnostics

SpecWeb == InitWeb /\ [][NextWeb]_vars

----------------------------------------------------------------------------
(* The handlers of app.py on threads of the server: a simulate request     *)
(* runs step by step, one iteration of the loop of run_simulation at a     *)
(* time, and export and diagnostics requests are served in between. One    *)
(* simulate request is handled at a time.                                   *)

\* simulate up to `simulator = CosmicDustSimulator(seed=seed)`: the global
\* names the new simulator, whose results are empty
SimulateBegin(data) ==
    /\ running = None
    /\ \E entropy \in EntropyKeys :
          simulator' = Some(CosmicDustSimulator(data.seed, entropy))
    /\ running' = Some(data)
    /\ UNCHANGED <<twin, log, random_state, files, last>>

\* one iteration of the loop after p = self.simulate_particle(...): the
\* particle is appended, or the exception reaches the handler's except
Appended(p) ==
    /\ simulator' = Some([rng     |-> p.rng,
                          results |-> IF p.outcome = "ok"
                                      THEN Append(Self.results, p.value)
                                      ELSE Self.results])
    /\ IF p.outcome = "ok"
       THEN UNCHANGED <<running, last>>
       ELSE /\ running' = None
            /\ last' = ErrorResponse("simulate", p.outcome)

\* one iteration of `for i in range(N)` of the request being handled
SimulateStep ==
    /\ running # None
    /\ Len(Self.results) < running[1].N
    /\ Appended(SimulatedParticle[Self.rng.key, Self.rng.pos,
                                  running[1].r_min, running[1].r_max, running[1].q])
    /\ UNCHANGED <<twin, log, random_state, files>>

\* simulate from the return of run_simulation on: diagnostics, sample,
\* response
SimulateEnd ==
    /\ running # None
    /\ Len(Self.results) >= running[1].N
    /\ random_state' = random_seed(running[1].seed)
    /\ last' = SimulateResponse(
                   Self, sampled_results(Self.results, random_seed(running[1].seed)))
    /\ running' = None
    /\ UNCHANGED <<simulator, twin, log, files>>

NextThreads ==
    \/ \E data \in Requests : SimulateBegin(data)
    \/ SimulateStep
    \/ SimulateEnd
    \/ export
    \/ diagnostics

SpecThreads == InitWeb /\ [][NextThreads]_vars

----------------------------------------------------------------------------
(* Properties of the core API (specification Spec).                        *)

Results == Self.results

\* a run is asked for with invalid parameters
Invalid(N, r_min, r_max) == N <= 0 \/ r_min >= r_max

\* C1: run_simulation rejects invalid parameters: a call with N <= 0 or
\* r_min >= r_max ends with an InvalidParameter error and leaves the
\* generator's draw position and the result collection as they were.
InvalidRunRejected ==
    [][\A N \in Ns, r_min \in RMins, r_max \in RMaxs, q \in Qs :
          (Invalid(N, r_min, r_max) /\ RunSimulation(N, r_min, r_max, q))
              => (last'.outcome = "InvalidParameter" /\ simulator' = simulator)]_vars

\* C2: get_diagnostics on an empty result collection fails with an
\* empty-result error; it never returns a value.
EmptySummarizeFails ==
    (last.op = "get_diagnostics" /\ Results = <<>>)
        => last.outcome \in {"EmptyResultSet", "EmptyInputError"}

\* C3: once a run has returned normally the result collection is non-empty,
\* and it stays non-empty under every later call.
HasResultsForever ==
    [][/\ (last'.op = "run_simulation" /\ last'.outcome = "ok")
              => simulator'[1].results # <<>>
       /\ Results # <<>> => simulator'[1].results # <<>>]_vars

\* the generator state at which the i-th particle of a run from rng is sampled
RECURSIVE SamplerState(_, _, _, _, _)
SamplerState(rng, i, r_min, r_max, q) ==
    IF i <= 1 THEN rng
    ELSE simulate_particle(SamplerState(rng, i - 1, r_min, r_max, q), r_min, r_max, q).rng

\* C4: when run_simulation(N, ...) with N > 0 returns, the collection holds
\* exactly N particles, the N particles this call sampled one after the
\* other from the generator state it started with, in that order; nothing
\* of an earlier run is left.
RunReplaces ==
    [][\A N \in Ns, r_min \in RMins, r_max \in RMaxs, q \in Qs :
          (N > 0 /\ last'.outcome = "ok" /\ RunSimulation(N, r_min, r_max, q))
              => /\ Len(simulator'[1].results) = N
                 /\ \A i \in 1..N :
                       simulator'[1].results[i] =
                           simulate_particle(SamplerState(Self.rng, i, r_min, r_max, q),
                                             r_min, r_max, q).value
                 /\ last'.ret = simulator'[1].results]_vars

\* a run of two particles has returned on a simulator whose earlier run
\* had sampled particles too
RunReplacesWitness ==
    /\ last.op = "run_simulation"
    /\ last.outcome = "ok"
    /\ Len(Results) = 2
    /\ Self.rng.pos >= 27

\* C6: every particle of a run with r_min < r_max has r_min <= r <= r_max,
\* for every q.
RadiusInRange ==
    [][\A N \in Ns, r_min \in RMins, r_max \in RMaxs, q \in Qs :
          (r_min < r_max /\ last'.outcome = "ok" /\ RunSimulation(N, r_min, r_max, q))
              => \A i \in 1..Len(simulator'[1].results) :
                    /\ RLeq(Rat(r_min, 1), simulator'[1].results[i].r)
                    /\ RLeq(simulator'[1].results[i].r, Rat(r_max, 1))]_vars

\* C7: export_csv on an empty result collection fails with the empty-result
\* error, creates and writes no file and leaves the simulator as it was.
ExportEmptyFails ==
    [][\A filename \in Filenames :
          (Results = <<>> /\ ExportCsv(filename))
              => /\ last'.outcome = "ValueError"
                 /\ files' = files
                 /\ simulator' = simulator]_vars

\* export_csv has failed on an empty collection, and no file exists
ExportEmptyFailsWitness ==
    /\ last.op = "export_csv"
    /\ last.outcome = "ValueError"
    /\ Results = <<>>
    /\ DOMAIN files = {}

\* the columns of the tabular export, in order
CsvHeader ==
    <<"source_family", "r_m", "m_kg", "material", "rho_kg_m3", "v_inf_m_s",
      "v_entry_m_s", "incoming_vector_x", "incoming_vector_y", "incoming_vector_z",
      "impact_parameter_b_m", "entry_angle_deg", "lat_deg", "lon_deg", "em_flag",
      "high_energy_flag", "selected_for_atmosphere">>

\* the value of particle p that belongs in the column
CellOf(p, column) ==
    CASE column = "source_family"           -> p.source_family
      [] column = "r_m"                     -> p.r
      [] column = "m_kg"                    -> p.m
      [] column = "material"                -> p.material
      [] column = "rho_kg_m3"               -> p.rho
      [] column = "v_inf_m_s"               -> p.v_inf
      [] column = "v_entry_m_s"             -> p.v_entry
      [] column = "incoming_vector_x"       -> p.incoming_unit_vector[1]
      [] column = "incoming_vector_y"       -> p.incoming_unit_vector[2]
      [] column = "incoming_vector_z"       -> p.incoming_unit_vector[3]
      [] column = "impact_parameter_b_m"    -> p.impact_parameter_b
      [] column = "entry_angle_deg"         -> p.entry_angle
      [] column = "lat_deg"                 -> p.lat
      [] column = "lon_deg"                 -> p.lon
      [] column = "em_flag"                 -> p.em_flag
      [] column = "high_energy_flag"        -> p.high_energy_flag
      [] column = "selected_for_atmosphere" -> p.selected_for_atmosphere

\* C8: export_csv on a non-empty collection writes the header row and then
\* one row per particle, row i holding particle i with its vector in the
\* columns incoming_vector_x/y/z; the collection, and so the diagnostics
\* report, is the same after it as before.
ExportWritesAll ==
    [][\A filename \in Filenames :
          (Results # <<>> /\ ExportCsv(filename))
              => /\ last'.outcome = "ok"
                 /\ Len(files'[filename]) = 1 + Len(Results)
                 /\ files'[filename][1] = CsvHeader
                 /\ \A i \in 1..Len(Results) :
                       /\ Len(files'[filename][i + 1]) = Len(CsvHeader)
                       /\ \A c \in 1..Len(CsvHeader) :
                             files'[filename][i + 1][c] = Str(CellOf(Results[i], CsvHeader[c]))
                 /\ simulator' = simulator
                 /\ get_diagnostics(simulator'[1]) = get_diagnostics(Self)]_vars

\* two particles have been exported: the file has three lines
ExportWritesAllWitness ==
    /\ last.op = "export_csv"
    /\ last.outcome = "ok"
    /\ Len(Results) = 2
    /\ Len(files[last.ret]) = 3

RECURSIVE SumOver(_, _)
SumOver(f, S) ==
    IF S = {} THEN 0
    ELSE f[CHOOSE x \in S : TRUE] + SumOver(f, S \ {CHOOSE x \in S : TRUE})

\* the mapping counts exactly the categories that occur, each as often as
\* it occurs, and its counts add up to total
CountsOf(mapping, field, total) ==
    /\ DOMAIN mapping = {Results[i][field] : i \in 1..Len(Results)}
    /\ \A c \in DOMAIN mapping :
          mapping[c] = Cardinality({i \in 1..Len(Results) : Results[i][field] = c})
    /\ SumOver(mapping, DOMAIN mapping) = total

\* C9: the report of get_diagnostics over a non-empty collection has
\* total_particles = the collection's length, source_distribution and
\* material_distribution keyed by exactly the categories that occur, with
\* their counts, each summing to total_particles, and em_particles and
\* high_energy_particles = the number of records with the flag set.
SummaryConsistent ==
    (last.op = "get_diagnostics" /\ Results # <<>>)
        => /\ last.ret.total_particles = Len(Results)
           /\ CountsOf(last.ret.source_distribution, "source_family",
                       last.ret.total_particles)
           /\ CountsOf(last.ret.material_distribution, "material",
                       last.ret.total_particles)
           /\ last.ret.em_particles =
                  Cardinality({i \in 1..Len(Results) : Results[i].em_flag})
           /\ last.ret.high_energy_particles =
                  Cardinality({i \in 1..Len(Results) : Results[i].high_energy_flag})

\* a report over two particles of two source families, one of them with
\* the EM flag
SummaryConsistentWitness ==
    /\ last.op = "get_diagnostics"
    /\ Len(Results) = 2
    /\ Cardinality(DOMAIN last.ret.source_distribution) = 2
    /\ last.ret.em_particles = 1

----------------------------------------------------------------------------
(* Properties of two simulators side by side (specification SpecPair).     *)

\* both simulators were given the same seed and made the same run
SameSeedSameRun ==
    /\ log.seed[1] # None
    /\ log.seed[1] = log.seed[2]
    /\ log.run[1] # None
    /\ log.run[1] = log.run[2]

\* C5: two runs with the same parameters, each on a simulator constructed
\* with the same seed, give the same result sequence, element for element
\* (and leave the two generators at the same draw position).
Determinism ==
    SameSeedSameRun
        => /\ Len(simulator[1].results) = Len(twin[1].results)
           /\ \A i \in 1..Len(simulator[1].results) :
                 simulator[1].results[i] = twin[1].results[i]
           /\ simulator[1].rng.pos = twin[1].rng.pos

\* both have sampled two particles
DeterminismWitness ==
    /\ SameSeedSameRun
    /\ Len(simulator[1].results) = 2
    /\ Len(twin[1].results) = 2

----------------------------------------------------------------------------
(* Properties of the HTTP layer (specification SpecWeb).                   *)

\* no run has produced results
NoResults == simulator = None \/ Self.results = <<>>

ClientError == 400..499
ServerError == 500..599

\* C10: a simulate request with invalid parameters (N <= 0 or
\* r_min >= r_max) gets a 4xx response, and so never a success response; an
\* export or diagnostics request made when no run has produced results gets
\* a 4xx response; a 5xx response carries a diagnostic trace.
StatusClasses ==
    [][/\ \A data \in Requests :
             (Invalid(data.N, data.r_min, data.r_max) /\ simulate(data))
                 => last'.outcome \in ClientError
       /\ (NoResults /\ export) => last'.outcome \in ClientError
       /\ (NoResults /\ diagnostics) => last'.outcome \in ClientError
       /\ last'.outcome \in ServerError => last'.ret.traceback]_vars

\* the entries are particles of the run, no particle taken twice
DistinctParticlesOf(entries, results) ==
    \E f \in [1..Len(entries) -> 1..Len(results)] :
       /\ \A i, j \in 1..Len(entries) : f[i] = f[j] => i = j
       /\ \A i \in 1..Len(entries) : entries[i] = ResultDict(results[f[i]])

\* C11: a successful simulate response to a request with valid parameters
\* (N > 0 and r_min < r_max) has total_particles = N and
\* sampled_particles = min(10000, N), its entries distinct particles of the
\* run; the sample's generator is keyed by the request's seed whenever one is
\* given (0 included) and by the constant 42 otherwise; the simulator is
\* left as run_simulation left it, generator position and results alike.
SampleKeyedBySeed ==
    [][\A data \in Requests :
          (/\ ~Invalid(data.N, data.r_min, data.r_max)
           /\ simulate(data)
           /\ last'.outcome = 200)
              => /\ last'.ret.total_particles = data.N
                 /\ last'.ret.sampled_particles = Min(SAMPLE_LIMIT, data.N)
                 /\ Len(last'.ret.results) = last'.ret.sampled_particles
                 /\ DistinctParticlesOf(last'.ret.results, simulator'[1].results)
                 /\ random_state' = (IF data.seed # None THEN data.seed ELSE Some(42))
                 /\ \E entropy \in EntropyKeys :
                       simulator'[1] =
                           run_simulation(CosmicDustSimulator(data.seed, entropy),
                                          data.N, data.r_min, data.r_max, data.q).self]_vars

----------------------------------------------------------------------------
(* Properties of the handlers on threads (specification SpecThreads).      *)

\* a simulate request is executing run_simulation, its collection not yet
\* holding all N particles
RunInProgress == running # None /\ Len(Self.results) < running[1].N

\* a step that leaves simulator and running alone and ends with the response
\* of export or diagnostics is a step of that handler.
\* C12: an export or diagnostics request never answers from the collection
\* of a simulate request that is still executing run_simulation: a 200
\* response of either is computed from all N particles of a finished run,
\* never from a partially filled collection.
NoRunObserved ==
    [][(/\ simulator' = simulator
        /\ running' = running
        /\ last'.op \in {"export", "diagnostics"}
        /\ last'.outcome = 200) => ~RunInProgress]_vars

====
